---- MODULE Spec2Model ----
(***************************************************************************)
(* Model of the Trail.Ai chat client (React component App) and of the     *)
(* remote document store / change feed it talks to.                       *)
(*                                                                         *)
(* A handler that runs synchronously from a UI event sees the state of    *)
(* the last render; a continuation that runs later (the part of           *)
(* handleSend after the awaited fetch, recognition.onresult, the          *)
(* onSnapshot callback) sees the values its closure captured: these are   *)
(* kept in the in-flight request, the recognition and the subscription.   *)
(* State updater functions (prev => ...) always see the latest state.     *)
(***************************************************************************)
EXTENDS Integers, Sequences, FiniteSets

\* ---- bounds ----
MaxId == 3        \* conversations created in one run (ids handed out)
MaxSends == 1     \* exchanges started from the keyboard in one run
MaxSpoken == 1    \* recognitions started in one run
MaxPending == 1   \* remote operations issued and not yet applied
MaxNotifs == 1    \* snapshots raised and not yet delivered
MaxRenames == 1   \* accepted renames in one run
MaxFaults == 1    \* rejected writes and listener errors in one run
MaxLogins == 2    \* sign-ins in one run
MaxBytes == 4     \* length of an audio buffer built from the sample bytes
MaxFullBytes == 2 \* length of an audio buffer built from all 256 byte values

\* ---- values ----
Users == {"A", "B"}
NoUser == "none"
NoConv == -1
NoFile == "nofile"
Files == {"f"}
Cancelled == <<"cancel">>
Unborn == "unborn"

Texts == {<<>>, <<" ">>, <<"h">>}
Transcripts == {<<" ">>, <<"h">>}
PromptInputs == {Cancelled, <<>>, <<" ">>, <<" ", "R">>}
FileMarker == <<"F">>
ReplyText == <<"r">>
Outcomes == {"ok", "network", "http", "badjson", "noaudio", "noreply",
             "badaudio"}

\* String.prototype.trim on a sequence of characters
RECURSIVE TrimLeft(_)
TrimLeft(s) == IF s # <<>> /\ Head(s) = " " THEN TrimLeft(Tail(s)) ELSE s

RECURSIVE TrimRight(_)
TrimRight(s) ==
  IF s # <<>> /\ s[Len(s)] = " " THEN TrimRight(SubSeq(s, 1, Len(s) - 1)) ELSE s

Trim(s) == TrimRight(TrimLeft(s))

Digits == <<"1", "2", "3", "4", "5", "6", "7", "8", "9">>

\* `New Chat ${index}`
DefaultTitle(index) == <<"N", Digits[index]>>

\* ---- base64 ----
ByteSamples == {0, 1, 127, 128, 255}

\* the audio buffers the round trip is tried on
Buffers ==
  UNION {[1..n -> 0..255] : n \in 0..MaxFullBytes}
    \cup UNION {[1..n -> ByteSamples] : n \in 0..MaxBytes}

Base64Alphabet ==
  <<"A", "B", "C", "D", "E", "F", "G", "H", "I", "J", "K", "L", "M",
    "N", "O", "P", "Q", "R", "S", "T", "U", "V", "W", "X", "Y", "Z",
    "a", "b", "c", "d", "e", "f", "g", "h", "i", "j", "k", "l", "m",
    "n", "o", "p", "q", "r", "s", "t", "u", "v", "w", "x", "y", "z",
    "0", "1", "2", "3", "4", "5", "6", "7", "8", "9", "+", "/">>

Pad == "="

\* the character of a 6-bit value / the 6-bit value of a character
Base64Char(v) == Base64Alphabet[v + 1]
Base64Value(c) == (CHOOSE k \in DOMAIN Base64Alphabet : Base64Alphabet[k] = c) - 1

\* Buffer.prototype.toString("base64"): three bytes become four characters,
\* a last group of one or two bytes is padded with "="
RECURSIVE toStringBase64(_)
toStringBase64(buf) ==
  IF buf = <<>> THEN <<>>
  ELSE IF Len(buf) = 1 THEN
    LET n == buf[1] * 16
    IN <<Base64Char(n \div 64), Base64Char(n % 64), Pad, Pad>>
  ELSE IF Len(buf) = 2 THEN
    LET n == (buf[1] * 256 + buf[2]) * 4
    IN <<Base64Char(n \div 4096), Base64Char((n \div 64) % 64),
         Base64Char(n % 64), Pad>>
  ELSE
    LET n == buf[1] * 65536 + buf[2] * 256 + buf[3]
    IN <<Base64Char(n \div 262144), Base64Char((n \div 4096) % 64),
         Base64Char((n \div 64) % 64), Base64Char(n % 64)>>
         \o toStringBase64(SubSeq(buf, 4, Len(buf)))

\* atob: the binary string (a sequence of code units) of a base64 string
RECURSIVE atob(_)
atob(str) ==
  IF Len(str) < 4 THEN <<>>
  ELSE
    LET v1 == Base64Value(str[1])
        v2 == Base64Value(str[2])
        rest == atob(SubSeq(str, 5, Len(str)))
    IN IF str[3] = Pad THEN <<(v1 * 64 + v2) \div 16>> \o rest
       ELSE IF str[4] = Pad THEN
         LET n == v1 * 4096 + v2 * 64 + Base64Value(str[3])
         IN <<n \div 1024, (n \div 4) % 256>> \o rest
       ELSE
         LET n == v1 * 262144 + v2 * 4096 + Base64Value(str[3]) * 64
                    + Base64Value(str[4])
         IN <<n \div 65536, (n \div 256) % 256, n % 256>> \o rest

\* (variant) a copy loop that stops one code unit early
base64ToAudioUrl_ShortLoop(base64) ==
  LET binary == atob(base64)
  IN [i \in 1..(IF binary = <<>> THEN 0 ELSE Len(binary) - 1) |->
        binary[i] % 256]

\* base64ToAudioUrl: the bytes of the Blob behind the returned URL
\* (bytes[i] = binary.charCodeAt(i) stored into a Uint8Array)
base64ToAudioUrl(base64) ==
  LET binary == atob(base64)
  IN [i \in 1..Len(binary) |-> binary[i] % 256]

VARIABLES
  conversations,          \* useState([]) : sequence of conversation records
  currentConversationId,  \* useState(null)
  inputText,              \* useState("")
  selectedFile,           \* useState(null)
  loading,                \* useState(false) : busy flag of the exchange
  listening,              \* useState(false)
  chatLoading,            \* useState(false)
  user,                   \* useState(null) : uid or NoUser
  rec,                    \* live recognition: closure of its onresult
  reqs,                   \* exchanges awaiting the backend: their closures
                          \* (text, before: history of what the send did)
  nextId,                 \* ids handed out so far (randomUUID is fresh)
  sent,                   \* exchanges started so far
  remote,                 \* per-user remote collection
  pending,                \* setDoc / deleteDoc issued, not yet applied
  notifs,                 \* snapshots raised for a listener, not yet delivered
  sub,                    \* the live onSnapshot listener
  owner,                  \* history: who was signed in when an id was created
  used,                   \* history: how often the bounded events happened
  audio,                  \* one reply audio on its way from backend to player
  backend                 \* one request in the Express backend

vars == <<conversations, currentConversationId, inputText, selectedFile,
          loading, listening, chatLoading, user, rec, reqs, nextId, sent,
          remote, pending, notifs, sub, owner, used, audio, backend>>

\* ---- helpers on the collection ----
Ids(convs) == {convs[i].id : i \in DOMAIN convs}

Find(convs, id) == convs[CHOOSE i \in DOMAIN convs : convs[i].id = id]

\* the messages a collection holds under an id (none if it does not hold it)
MessagesOf(convs, id) ==
  IF id \in Ids(convs) THEN Find(convs, id).messages ELSE <<>>

\* createNewConversation(index) with the id the generator returns
createNewConversation(index, id) ==
  [id |-> id, title |-> DefaultTitle(index), createdAt |-> id,
   messages |-> <<>>]

NoDoc == [id |-> NoConv, title |-> <<>>, createdAt |-> 0, messages |-> <<>>]

\* what an earlier run of the program left in a user's remote collection
OldConv == createNewConversation(1, 0)
NoRec == [conv |-> NoConv, user |-> NoUser, file |-> NoFile, live |-> FALSE]

\* conversations.find(c => c.id === currentConversationId) || conversations[0]
currentConversation ==
  IF currentConversationId \in Ids(conversations) THEN currentConversationId
  ELSE IF conversations # <<>> THEN conversations[1].id
  ELSE NoConv

UserMsg(text) == [role |-> "user", text |-> text, audioUrl |-> "none"]
AiMsg == [role |-> "ai", text |-> ReplyText, audioUrl |-> "blob"]

\* ---- remote operations ----
SetOp(u, conv) == [kind |-> "set", uid |-> u, id |-> conv.id, conv |-> conv]
DelOp(u, id) == [kind |-> "del", uid |-> u, id |-> id, conv |-> NoDoc]

\* (variant) saveConversationToFirestore without its "if (!user) return"
saveConversationToFirestore_NoGuard(u, conv) == <<SetOp(u, conv)>>

\* saveConversationToFirestore as seen by a closure whose user is u
saveConversationToFirestore(u, conv) ==
  IF u = NoUser THEN <<>> ELSE <<SetOp(u, conv)>>

\* deleteConversationFromFirestore as seen by a closure whose user is u
deleteConversationFromFirestore(u, convId) ==
  IF u = NoUser THEN <<>> ELSE <<DelOp(u, convId)>>

\* query(convsCol, orderBy("createdAt")) over a set of documents
RECURSIVE OrderByCreatedAt(_)
OrderByCreatedAt(docs) ==
  IF docs = {} THEN <<>>
  ELSE LET first == CHOOSE d \in docs :
                      \A e \in docs : <<d.createdAt, d.id>> = <<e.createdAt, e.id>>
                                      \/ d.createdAt < e.createdAt
                                      \/ (d.createdAt = e.createdAt /\ d.id < e.id)
       IN <<first>> \o OrderByCreatedAt(docs \ {first})

\* (variant) an updater that forgets to spread the earlier messages
MapMessages_Replace(prev, id, msg) ==
  [i \in DOMAIN prev |->
     IF prev[i].id = id THEN [prev[i] EXCEPT !.messages = <<msg>>] ELSE prev[i]]

\* (variant) an updater that does not compare ids
MapMessages_Every(prev, id, msg) ==
  [i \in DOMAIN prev |->
     [prev[i] EXCEPT !.messages = Append(prev[i].messages, msg)]]

\* the setConversations updater of updateCurrentConversationMessages
MapMessages(prev, id, msg) ==
  [i \in DOMAIN prev |->
     IF prev[i].id = id
       THEN [prev[i] EXCEPT !.messages = Append(prev[i].messages, msg)]
       ELSE prev[i]]

\* the remote write issued from inside that updater
PushAfterUpdate(u, updated, id) ==
  IF u # NoUser /\ id \in Ids(updated)
    THEN saveConversationToFirestore(u, Find(updated, id))
    ELSE <<>>

\* bound: a user event that pushes waits while MaxPending operations are queued
CanPush == Len(pending) < MaxPending

\* no audio is on its way
NoAudio == [step |-> "idle", buffer |-> <<>>, base64 |-> <<>>, blob |-> <<>>]

\* ---- the Express backend ----
\* req.file is undefined: the multipart body carried no "file" part
NoUpload == "none"

\* req.file.mimetype of an upload
MimeTypes == {"application/pdf", "text/plain", "image/png"}

\* req.body.question of a file chat (absent or empty: <<>>)
Questions == {<<>>, <<"q">>}

\* what pdfParse or readFileSync hands back as the document's text
Extracted == {<<>>, <<"d">>}

\* a call into the file system, pdf-parse, Vertex AI or ElevenLabs returns or throws
CallOutcomes == {"ok", "throws"}

\* generateContent: a reply, a response without text, or a thrown error
GeminiOutcomes == {"reply", "noreply", "throws"}

\* the ElevenLabs fetch: a 2xx response, another status, or a thrown error
TtsOutcomes == {"ok", "notok", "throws"}

\* the bodies ElevenLabs answers with
AudioBuffers == UNION {[1..n -> ByteSamples] : n \in 0..MaxFullBytes}

\* the field a response body does not have
Absent == "absent"

\* no request is in the backend
NoRequest ==
  [step |-> "idle", endpoint |-> "none", text |-> <<>>, file |-> NoUpload,
   question |-> <<>>, onDisk |-> FALSE, prompt |-> <<>>, replyText |-> <<>>,
   responses |-> <<>>, verdict |-> "none"]

\* res.status(status).json({ error })
ErrorResponse(b, status, error) ==
  [b EXCEPT !.step = "done",
            !.responses = Append(@, [status |-> status, replyText |-> <<>>,
                                     audioBase64 |-> <<>>, error |-> error])]

\* res.json(result)
ResultResponse(b, replyText, audioBase64) ==
  [b EXCEPT !.step = "done",
            !.responses = Append(@, [status |-> 200, replyText |-> replyText,
                                     audioBase64 |-> audioBase64,
                                     error |-> Absent])]

\* file-chat: req.body.question || "Summarize this document"
userQuestion(q) == IF q = <<>> THEN <<"S">> ELSE q

\* file-chat: the prompt built around the extracted text and the question
finalPrompt(extractedText, q) ==
  <<"D">> \o extractedText \o <<"Q">> \o userQuestion(q)

\* handleSend: what the client makes of a response of the backend
handleSendVerdict(resp) ==
  IF ~(resp.status \in 200..299) THEN "http"
  ELSE IF resp.audioBase64 = <<>> \/ resp.replyText = <<>> THEN "missing"
  ELSE "ok"

Init ==
  /\ conversations = <<createNewConversation(1, 1)>>
  /\ currentConversationId = 1
  /\ inputText = <<>>
  /\ selectedFile = NoFile
  /\ loading = FALSE
  /\ listening = FALSE
  /\ chatLoading = FALSE
  /\ user = NoUser
  /\ rec = NoRec
  /\ reqs = {}
  /\ nextId = 1
  /\ sent = 0
  /\ remote = [u \in Users |-> {}]
  /\ pending = <<>>
  /\ notifs = <<>>
  /\ sub = NoUser
  /\ owner = [i \in 0..MaxId |-> IF i = 1 THEN NoUser ELSE Unborn]
  /\ used = [renames |-> 0, faults |-> 0, logins |-> 0, typed |-> 0,
             spoken |-> 0]
  /\ audio = NoAudio
  /\ backend = NoRequest

\* the page is opened by somebody whose account already holds a conversation
InitReturning ==
  /\ conversations = <<createNewConversation(1, 1)>>
  /\ currentConversationId = 1
  /\ inputText = <<>>
  /\ selectedFile = NoFile
  /\ loading = FALSE
  /\ listening = FALSE
  /\ chatLoading = FALSE
  /\ user = NoUser
  /\ rec = NoRec
  /\ reqs = {}
  /\ nextId = 1
  /\ sent = 0
  /\ remote = [u \in Users |-> IF u = "A" THEN {OldConv} ELSE {}]
  /\ pending = <<>>
  /\ notifs = <<>>
  /\ sub = NoUser
  /\ owner = [i \in 0..MaxId |->
               IF i = 1 THEN NoUser ELSE IF i = OldConv.id THEN "A" ELSE Unborn]
  /\ used = [renames |-> 0, faults |-> 0, logins |-> 0, typed |-> 0,
             spoken |-> 0]
  /\ audio = NoAudio
  /\ backend = NoRequest

\* a returning user is signed in and the first snapshot has been delivered
InitSignedIn ==
  /\ conversations = <<OldConv>>
  /\ currentConversationId = OldConv.id
  /\ inputText = <<>>
  /\ selectedFile = NoFile
  /\ loading = FALSE
  /\ listening = FALSE
  /\ chatLoading = FALSE
  /\ user = "A"
  /\ rec = NoRec
  /\ reqs = {}
  /\ nextId = 1
  /\ sent = 0
  /\ remote = [u \in Users |-> IF u = "A" THEN {OldConv} ELSE {}]
  /\ pending = <<>>
  /\ notifs = <<>>
  /\ sub = "A"
  /\ owner = [i \in 0..MaxId |->
               IF i = 1 THEN NoUser ELSE IF i = OldConv.id THEN "A" ELSE Unborn]
  /\ used = [renames |-> 0, faults |-> 0, logins |-> 1, typed |-> 0,
             spoken |-> 0]
  /\ audio = NoAudio
  /\ backend = NoRequest

\* handleNewChat
handleNewChat ==
  /\ UNCHANGED used
  /\ nextId < MaxId
  /\ CanPush
  /\ LET newConv == createNewConversation(Len(conversations) + 1, nextId + 1)
     IN /\ conversations' = Append(conversations, newConv)
        /\ currentConversationId' = newConv.id
        /\ inputText' = <<>>
        /\ pending' = pending \o saveConversationToFirestore(user, newConv)
        /\ nextId' = nextId + 1
        /\ owner' = [owner EXCEPT ![nextId + 1] = user]
  /\ UNCHANGED <<selectedFile, loading, listening, chatLoading, user, rec,
                 reqs, sent, remote, notifs, sub>>
  /\ UNCHANGED <<audio, backend>>

\* onClick={() => setCurrentConversationId(conv.id)} on a listed conversation
SelectConversation(id) ==
  /\ UNCHANGED used
  /\ id \in Ids(conversations)
  /\ id # currentConversationId
  /\ currentConversationId' = id
  /\ UNCHANGED <<conversations, inputText, selectedFile, loading, listening,
                 chatLoading, user, rec, reqs, nextId, sent, remote, pending,
                 notifs, sub, owner>>
  /\ UNCHANGED <<audio, backend>>

\* textarea onChange
TypeText(t) ==
  /\ UNCHANGED used
  /\ t # inputText
  /\ used.typed < MaxSends
  /\ inputText' = t
  /\ UNCHANGED <<conversations, currentConversationId, selectedFile, loading,
                 listening, chatLoading, user, rec, reqs, nextId, sent, remote,
                 pending, notifs, sub, owner>>
  /\ UNCHANGED <<audio, backend>>

\* file input onChange / the "remove file" button
SetSelectedFile(f) ==
  /\ UNCHANGED used
  /\ f # selectedFile
  /\ used.typed < MaxSends \/ rec.live \/ used.spoken < MaxSpoken
  /\ selectedFile' = f
  /\ UNCHANGED <<conversations, currentConversationId, inputText, loading,
                 listening, chatLoading, user, rec, reqs, nextId, sent, remote,
                 pending, notifs, sub, owner>>
  /\ UNCHANGED <<audio, backend>>

\* (variant) a guard that only tests !newTitle
RenameRejected_NoTrim(newTitle) ==
  newTitle = Cancelled \/ newTitle = <<>>

\* !newTitle || !newTitle.trim()
RenameRejected(newTitle) ==
  newTitle = Cancelled \/ newTitle = <<>> \/ Trim(newTitle) = <<>>

\* handleRenameChat(conv) where window.prompt returns newTitle
handleRenameChat(i, newTitle) ==
  /\ i \in DOMAIN conversations
  /\ CanPush
  /\ IF RenameRejected(newTitle)
       THEN UNCHANGED <<conversations, pending, used>>
       ELSE LET conv == conversations[i]
                updatedTitle == Trim(newTitle)
            IN /\ used.renames < MaxRenames
               /\ used' = [used EXCEPT !.renames = @ + 1]
               /\ conversations' =
                    [j \in DOMAIN conversations |->
                       IF conversations[j].id = conv.id
                         THEN [conversations[j] EXCEPT !.title = updatedTitle]
                         ELSE conversations[j]]
               /\ pending' = pending \o
                    saveConversationToFirestore(user,
                                                [conv EXCEPT !.title = updatedTitle])
  /\ UNCHANGED <<currentConversationId, inputText, selectedFile, loading,
                 listening, chatLoading, user, rec, reqs, nextId, sent, remote,
                 notifs, sub, owner>>
  /\ UNCHANGED <<audio, backend>>

\* clearChatById(convId), after window.confirm
clearChatById(convId) ==
  /\ UNCHANGED used
  /\ convId \in Ids(conversations)
  /\ CanPush
  /\ LET updated == [i \in DOMAIN conversations |->
                       IF conversations[i].id = convId
                         THEN [conversations[i] EXCEPT !.messages = <<>>]
                         ELSE conversations[i]]
     IN /\ conversations' = updated
        /\ pending' = pending \o PushAfterUpdate(user, updated, convId)
  /\ inputText' = IF convId = currentConversationId THEN <<>> ELSE inputText
  /\ UNCHANGED <<currentConversationId, selectedFile, loading, listening,
                 chatLoading, user, rec, reqs, nextId, sent, remote, notifs,
                 sub, owner>>
  /\ UNCHANGED <<audio, backend>>

\* prev.filter(c => c.id !== convId)
Filtered(prev, convId) ==
  LET Keep(c) == c.id # convId IN SelectSeq(prev, Keep)

\* (variant) deleteChatById without the "filtered.length === 0" repair
deleteChatById_NoRepair(convId) ==
  /\ UNCHANGED used
  /\ convId \in Ids(conversations)
  /\ CanPush
  /\ LET filtered == Filtered(conversations, convId)
     IN /\ conversations' = filtered
        /\ currentConversationId' =
             IF convId = currentConversationId /\ filtered # <<>>
               THEN filtered[1].id
               ELSE currentConversationId
        /\ pending' = pending \o deleteConversationFromFirestore(user, convId)
  /\ UNCHANGED <<inputText, selectedFile, loading, listening, chatLoading,
                 user, rec, reqs, sent, remote, notifs, sub, nextId, owner>>
  /\ UNCHANGED <<audio, backend>>

\* (variant) deleteChatById whose repair does not save the new default
deleteChatById_NoSave(convId) ==
  /\ UNCHANGED used
  /\ convId \in Ids(conversations)
  /\ CanPush
  /\ LET filtered == Filtered(conversations, convId)
     IN IF filtered = <<>>
          THEN /\ nextId < MaxId
               /\ LET newConv == createNewConversation(1, nextId + 1)
                  IN /\ conversations' = <<newConv>>
                     /\ currentConversationId' = newConv.id
                     /\ pending' = pending
                          \o deleteConversationFromFirestore(user, convId)
                     /\ nextId' = nextId + 1
                     /\ owner' = [owner EXCEPT ![nextId + 1] = user]
          ELSE /\ conversations' = filtered
               /\ currentConversationId' =
                    IF convId = currentConversationId THEN filtered[1].id
                    ELSE currentConversationId
               /\ pending' = pending
                    \o deleteConversationFromFirestore(user, convId)
               /\ UNCHANGED <<nextId, owner>>
  /\ UNCHANGED <<inputText, selectedFile, loading, listening, chatLoading,
                 user, rec, reqs, sent, remote, notifs, sub>>
  /\ UNCHANGED <<audio, backend>>

\* (variant) deleteChatById that leaves the active id alone when other
\* conversations remain
deleteChatById_KeepsActive(convId) ==
  /\ UNCHANGED used
  /\ convId \in Ids(conversations)
  /\ CanPush
  /\ LET filtered == Filtered(conversations, convId)
     IN IF filtered = <<>>
          THEN /\ nextId < MaxId
               /\ LET newConv == createNewConversation(1, nextId + 1)
                  IN /\ conversations' = <<newConv>>
                     /\ currentConversationId' = newConv.id
                     /\ pending' = pending
                          \o deleteConversationFromFirestore(user, convId)
                          \o saveConversationToFirestore(user, newConv)
                     /\ nextId' = nextId + 1
                     /\ owner' = [owner EXCEPT ![nextId + 1] = user]
          ELSE /\ conversations' = filtered
               /\ currentConversationId' = currentConversationId
               /\ pending' = pending
                    \o deleteConversationFromFirestore(user, convId)
               /\ UNCHANGED <<nextId, owner>>
  /\ UNCHANGED <<inputText, selectedFile, loading, listening, chatLoading,
                 user, rec, reqs, sent, remote, notifs, sub>>
  /\ UNCHANGED <<audio, backend>>

\* deleteChatById(convId), after window.confirm
deleteChatById(convId) ==
  /\ UNCHANGED used
  /\ convId \in Ids(conversations)
  /\ CanPush
  /\ LET filtered == Filtered(conversations, convId)
     IN IF filtered = <<>>
          THEN /\ nextId < MaxId
               /\ LET newConv == createNewConversation(1, nextId + 1)
                  IN /\ conversations' = <<newConv>>
                     /\ currentConversationId' = newConv.id
                     /\ pending' = pending
                          \o deleteConversationFromFirestore(user, convId)
                          \o saveConversationToFirestore(user, newConv)
                     /\ nextId' = nextId + 1
                     /\ owner' = [owner EXCEPT ![nextId + 1] = user]
          ELSE /\ conversations' = filtered
               /\ currentConversationId' =
                    IF convId = currentConversationId THEN filtered[1].id
                    ELSE currentConversationId
               /\ pending' = pending
                    \o deleteConversationFromFirestore(user, convId)
               /\ UNCHANGED <<nextId, owner>>
  /\ UNCHANGED <<inputText, selectedFile, loading, listening, chatLoading,
                 user, rec, reqs, sent, remote, notifs, sub>>
  /\ UNCHANGED <<audio, backend>>

\* (variant) handleSend without its two validation returns
handleSend_NoValidation(text, cur, u, file, typed, spoken) ==
  LET displayText == IF Trim(text) # <<>> THEN text ELSE FileMarker
      updated == MapMessages(conversations, cur, UserMsg(displayText))
  IN /\ spoken \/ used.typed < MaxSends
     /\ used' = IF spoken THEN used ELSE [used EXCEPT !.typed = @ + 1]
     /\ CanPush
     /\ conversations' = updated
     /\ pending' = pending \o PushAfterUpdate(u, updated, cur)
     /\ loading' = TRUE
     /\ inputText' = <<>>
     /\ sent' = sent + 1
     /\ reqs' = reqs \cup {[n |-> sent + 1, conv |-> cur, user |-> u,
                            file |-> file, text |-> displayText,
                            before |-> MessagesOf(conversations, cur)]}

\* handleSend(textToSend) run by a closure that captured the conversation
\* cur, the user u and the file; typed is what the input box holds if the
\* send is refused
handleSend(text, cur, u, file, typed, spoken) ==
  IF (Trim(text) = <<>> /\ file = NoFile) \/ cur = NoConv
    THEN /\ inputText' = typed
         /\ UNCHANGED <<conversations, loading, reqs, sent, pending, used>>
    ELSE LET displayText == IF Trim(text) # <<>> THEN text ELSE FileMarker
             updated == MapMessages(conversations, cur, UserMsg(displayText))
         IN /\ spoken \/ used.typed < MaxSends
            /\ used' = IF spoken THEN used ELSE [used EXCEPT !.typed = @ + 1]
            /\ CanPush
            /\ conversations' = updated
            /\ pending' = pending \o PushAfterUpdate(u, updated, cur)
            /\ loading' = TRUE
            /\ inputText' = <<>>
            /\ sent' = sent + 1
            /\ reqs' = reqs \cup {[n |-> sent + 1, conv |-> cur, user |-> u,
                                   file |-> file, text |-> displayText,
                                   before |-> MessagesOf(conversations, cur)]}

\* textarea onKeyDown: Enter without Shift
EnterKey ==
  /\ ~loading
  /\ handleSend(inputText, currentConversation, user, selectedFile, inputText,
                FALSE)
  /\ UNCHANGED <<currentConversationId, selectedFile, listening, chatLoading,
                 user, rec, nextId, remote, notifs, sub, owner>>
  /\ UNCHANGED <<audio, backend>>

\* (variant) the rest of handleSend without the check of the two fields
Reply_NoFieldCheck(r, outcome) ==
  /\ UNCHANGED used
  /\ r \in reqs
  /\ reqs' = reqs \ {r}
  /\ loading' = FALSE
  /\ selectedFile' = IF r.file # NoFile /\ outcome # "network" THEN NoFile
                     ELSE selectedFile
  /\ IF outcome \in {"ok", "noaudio", "noreply"}
       THEN LET updated == MapMessages(conversations, r.conv, AiMsg)
            IN /\ conversations' = updated
               /\ pending' = pending \o PushAfterUpdate(r.user, updated, r.conv)
       ELSE UNCHANGED <<conversations, pending>>
  /\ UNCHANGED <<currentConversationId, inputText, listening, chatLoading,
                 user, rec, nextId, sent, remote, notifs, sub, owner>>
  /\ UNCHANGED <<audio, backend>>

\* (variant) a reply appended to the conversation active when it arrives
Reply_ToActive(r, outcome) ==
  /\ UNCHANGED used
  /\ r \in reqs
  /\ reqs' = reqs \ {r}
  /\ loading' = FALSE
  /\ selectedFile' = IF r.file # NoFile /\ outcome # "network" THEN NoFile
                     ELSE selectedFile
  /\ IF outcome = "ok"
       THEN LET updated == MapMessages(conversations, currentConversation, AiMsg)
            IN /\ conversations' = updated
               /\ pending' = pending
                    \o PushAfterUpdate(r.user, updated, currentConversation)
       ELSE UNCHANGED <<conversations, pending>>
  /\ UNCHANGED <<currentConversationId, inputText, listening, chatLoading,
                 user, rec, nextId, sent, remote, notifs, sub, owner>>
  /\ UNCHANGED <<audio, backend>>

\* the rest of handleSend, once the fetch of request r has settled
Reply(r, outcome) ==
  /\ UNCHANGED used
  /\ r \in reqs
  /\ reqs' = reqs \ {r}
  /\ loading' = FALSE
  /\ selectedFile' = IF r.file # NoFile /\ outcome # "network" THEN NoFile
                     ELSE selectedFile
  /\ IF outcome = "ok"
       THEN LET updated == MapMessages(conversations, r.conv, AiMsg)
            IN /\ conversations' = updated
               /\ pending' = pending \o PushAfterUpdate(r.user, updated, r.conv)
       ELSE UNCHANGED <<conversations, pending>>
  /\ UNCHANGED <<currentConversationId, inputText, listening, chatLoading,
                 user, rec, nextId, sent, remote, notifs, sub, owner>>
  /\ UNCHANGED <<audio, backend>>

\* startListening (mic button, disabled while loading); onstart
startListening ==
  /\ ~loading
  /\ ~listening
  /\ used.spoken < MaxSpoken
  /\ used' = [used EXCEPT !.spoken = @ + 1]
  /\ listening' = TRUE
  /\ rec' = [conv |-> currentConversation, user |-> user,
             file |-> selectedFile, live |-> TRUE]
  /\ UNCHANGED <<conversations, currentConversationId, inputText, selectedFile,
                 loading, chatLoading, user, reqs, nextId, sent, remote,
                 pending, notifs, sub, owner>>
  /\ UNCHANGED <<audio, backend>>

\* recognition.onresult
onresult(transcript) ==
  /\ rec.live
  /\ handleSend(transcript, rec.conv, rec.user, rec.file, transcript, TRUE)
  /\ rec' = NoRec
  /\ UNCHANGED <<currentConversationId, selectedFile, listening, chatLoading,
                 user, nextId, remote, notifs, sub, owner>>
  /\ UNCHANGED <<audio, backend>>

\* recognition.onend / onerror / stopListening
onend ==
  /\ UNCHANGED used
  /\ listening
  /\ listening' = FALSE
  /\ rec' = NoRec
  /\ UNCHANGED <<conversations, currentConversationId, inputText, selectedFile,
                 loading, chatLoading, user, reqs, nextId, sent, remote,
                 pending, notifs, sub, owner>>
  /\ UNCHANGED <<audio, backend>>

\* unsubscribe(): no callback of that listener runs afterwards
\* (the payload of a snapshot that is never handed over is not kept)
Unsubscribed(ns) == [i \in DOMAIN ns |-> [live |-> FALSE, docs |-> <<>>]]

Snapshot(docs) == [live |-> TRUE, docs |-> OrderByCreatedAt(docs)]

\* onAuthStateChanged(firebaseUser) and the two [user] effects
Login(u) ==
  /\ used.logins < MaxLogins
  /\ used' = [used EXCEPT !.logins = @ + 1]
  /\ u \in Users
  /\ u # user
  /\ Len(notifs) < MaxNotifs
  /\ user' = u
  /\ chatLoading' = TRUE
  /\ sub' = u
  /\ notifs' = Append(Unsubscribed(notifs), Snapshot(remote[u]))
  /\ UNCHANGED <<conversations, currentConversationId, inputText, selectedFile,
                 loading, listening, rec, reqs, nextId, sent, remote, pending,
                 owner>>
  /\ UNCHANGED <<audio, backend>>

\* (variant) sign-out without the no-user effect
Logout_KeepsChats ==
  /\ UNCHANGED used
  /\ user # NoUser
  /\ user' = NoUser
  /\ sub' = NoUser
  /\ notifs' = Unsubscribed(notifs)
  /\ UNCHANGED <<conversations, currentConversationId, inputText, selectedFile,
                 loading, listening, chatLoading, rec, reqs, sent, remote,
                 pending, nextId, owner>>
  /\ UNCHANGED <<audio, backend>>

\* (variant) sign-out whose listener effect returns no cleanup
Logout_NoCleanup ==
  /\ UNCHANGED used
  /\ user # NoUser
  /\ nextId < MaxId
  /\ user' = NoUser
  /\ LET firstConv == createNewConversation(1, nextId + 1)
     IN /\ conversations' = <<firstConv>>
        /\ currentConversationId' = firstConv.id
  /\ nextId' = nextId + 1
  /\ owner' = [owner EXCEPT ![nextId + 1] = NoUser]
  /\ UNCHANGED <<inputText, selectedFile, loading, listening, chatLoading,
                 rec, reqs, sent, remote, pending, sub, notifs>>
  /\ UNCHANGED <<audio, backend>>

\* onAuthStateChanged(null), the listener cleanup and the no-user effect
Logout ==
  /\ UNCHANGED used
  /\ user # NoUser
  /\ nextId < MaxId
  /\ user' = NoUser
  /\ sub' = NoUser
  /\ notifs' = Unsubscribed(notifs)
  /\ LET firstConv == createNewConversation(1, nextId + 1)
     IN /\ conversations' = <<firstConv>>
        /\ currentConversationId' = firstConv.id
  /\ nextId' = nextId + 1
  /\ owner' = [owner EXCEPT ![nextId + 1] = NoUser]
  /\ UNCHANGED <<inputText, selectedFile, loading, listening, chatLoading,
                 rec, reqs, sent, remote, pending>>
  /\ UNCHANGED <<audio, backend>>

\* (variant) a success callback that always activates the first document
onSnapshot_AlwaysFirst(u, loaded) ==
  /\ chatLoading' = FALSE
  /\ IF loaded = <<>>
       THEN /\ nextId < MaxId
            /\ LET firstConv == createNewConversation(1, nextId + 1)
               IN /\ conversations' = <<firstConv>>
                  /\ currentConversationId' = firstConv.id
                  /\ pending' = pending \o saveConversationToFirestore(u, firstConv)
            /\ nextId' = nextId + 1
            /\ owner' = [owner EXCEPT ![nextId + 1] = u]
       ELSE /\ conversations' = loaded
            /\ currentConversationId' = loaded[1].id
            /\ UNCHANGED <<pending, nextId, owner>>

\* the onSnapshot success callback of the listener of user u
onSnapshot(u, loaded) ==
  /\ chatLoading' = FALSE
  /\ IF loaded = <<>>
       THEN /\ nextId < MaxId
            /\ LET firstConv == createNewConversation(1, nextId + 1)
               IN /\ conversations' = <<firstConv>>
                  /\ currentConversationId' = firstConv.id
                  /\ pending' = pending \o saveConversationToFirestore(u, firstConv)
            /\ nextId' = nextId + 1
            /\ owner' = [owner EXCEPT ![nextId + 1] = u]
       ELSE /\ conversations' = loaded
            /\ currentConversationId' =
                 IF currentConversationId \in Ids(loaded)
                   THEN currentConversationId
                   ELSE loaded[1].id
            /\ UNCHANGED <<pending, nextId, owner>>

\* the feed hands the oldest raised snapshot to its listener, if still live
DeliverNotif ==
  /\ UNCHANGED used
  /\ notifs # <<>>
  /\ notifs' = Tail(notifs)
  /\ IF Head(notifs).live
       THEN onSnapshot(sub, Head(notifs).docs)
       ELSE UNCHANGED <<conversations, currentConversationId, chatLoading,
                        pending, nextId, owner>>
  /\ UNCHANGED <<inputText, selectedFile, loading, listening, user, rec, reqs,
                 sent, remote, sub>>
  /\ UNCHANGED <<audio, backend>>

\* (variant) an error callback that only logs
onSnapshotError_OnlyLogs ==
  /\ used.faults < MaxFaults
  /\ used' = [used EXCEPT !.faults = @ + 1]
  /\ sub # NoUser
  /\ sub' = NoUser
  /\ notifs' = Unsubscribed(notifs)
  /\ UNCHANGED <<conversations, currentConversationId, inputText, selectedFile,
                 loading, listening, chatLoading, user, rec, reqs, nextId, sent,
                 remote, pending, owner>>
  /\ UNCHANGED <<audio, backend>>

\* the onSnapshot error callback; the listener is dead afterwards
onSnapshotError ==
  /\ used.faults < MaxFaults
  /\ used' = [used EXCEPT !.faults = @ + 1]
  /\ sub # NoUser
  /\ chatLoading' = FALSE
  /\ sub' = NoUser
  /\ notifs' = Unsubscribed(notifs)
  /\ UNCHANGED <<conversations, currentConversationId, inputText, selectedFile,
                 loading, listening, user, rec, reqs, nextId, sent, remote,
                 pending, owner>>
  /\ UNCHANGED <<audio, backend>>

\* (variant) a collection that is not keyed by the conversation id
ApplyOp_NotKeyed(docs, op) ==
  IF op.kind = "set" THEN docs \cup {op.conv}
  ELSE {d \in docs : d.id # op.id}

\* the effect of one setDoc / deleteDoc on a user's collection
ApplyOp(docs, op) ==
  LET others == {d \in docs : d.id # op.id}
  IN IF op.kind = "set" THEN others \cup {op.conv} ELSE others

\* the remote store applies the oldest issued operation and notifies
RemoteApply ==
  /\ UNCHANGED used
  /\ pending # <<>>
  /\ LET op == Head(pending)
         docs == ApplyOp(remote[op.uid], op)
     IN /\ remote' = [remote EXCEPT ![op.uid] = docs]
        /\ IF sub = op.uid /\ docs # remote[op.uid]
             THEN /\ Len(notifs) < MaxNotifs
                  /\ notifs' = Append(notifs, Snapshot(docs))
             ELSE UNCHANGED notifs
  /\ pending' = Tail(pending)
  /\ UNCHANGED <<conversations, currentConversationId, inputText, selectedFile,
                 loading, listening, chatLoading, user, rec, reqs, nextId, sent,
                 sub, owner>>
  /\ UNCHANGED <<audio, backend>>

\* setDoc / deleteDoc rejects: caught and logged
WriteFails ==
  /\ used.faults < MaxFaults
  /\ used' = [used EXCEPT !.faults = @ + 1]
  /\ pending # <<>>
  /\ pending' = Tail(pending)
  /\ UNCHANGED <<conversations, currentConversationId, inputText, selectedFile,
                 loading, listening, chatLoading, user, rec, reqs, nextId, sent,
                 remote, notifs, sub, owner>>
  /\ UNCHANGED <<audio, backend>>

\* ---- the reply audio: backend encodes, client decodes ----
\* the page as in Init and an audio buffer received from the speech service
InitCodec ==
  /\ conversations = <<createNewConversation(1, 1)>>
  /\ currentConversationId = 1
  /\ inputText = <<>>
  /\ selectedFile = NoFile
  /\ loading = FALSE
  /\ listening = FALSE
  /\ chatLoading = FALSE
  /\ user = NoUser
  /\ rec = NoRec
  /\ reqs = {}
  /\ nextId = 1
  /\ sent = 0
  /\ remote = [u \in Users |-> {}]
  /\ pending = <<>>
  /\ notifs = <<>>
  /\ sub = NoUser
  /\ owner = [i \in 0..MaxId |-> IF i = 1 THEN NoUser ELSE Unborn]
  /\ used = [renames |-> 0, faults |-> 0, logins |-> 0, typed |-> 0,
             spoken |-> 0]
  /\ \E b \in Buffers :
       audio = [step |-> "buffer", buffer |-> b, base64 |-> <<>>, blob |-> <<>>]
  /\ backend = NoRequest

\* processTextWithAI: audioBase64 = audioBuffer.toString("base64")
EncodeAudio ==
  /\ audio.step = "buffer"
  /\ audio' = [audio EXCEPT !.step = "encoded",
                            !.base64 = toStringBase64(audio.buffer)]
  /\ UNCHANGED <<conversations, currentConversationId, inputText, selectedFile,
                 loading, listening, chatLoading, user, rec, reqs, nextId, sent,
                 remote, pending, notifs, sub, owner, used>>
  /\ UNCHANGED backend

\* handleSend: audioUrl = base64ToAudioUrl(data.audioBase64)
DecodeAudio ==
  /\ audio.step = "encoded"
  /\ audio' = [audio EXCEPT !.step = "decoded",
                            !.blob = base64ToAudioUrl(audio.base64)]
  /\ UNCHANGED <<conversations, currentConversationId, inputText, selectedFile,
                 loading, listening, chatLoading, user, rec, reqs, nextId, sent,
                 remote, pending, notifs, sub, owner, used>>
  /\ UNCHANGED backend

\* the variables of the browser client and of the remote store
clientVars ==
  <<conversations, currentConversationId, inputText, selectedFile, loading,
    listening, chatLoading, user, rec, reqs, nextId, sent, remote, pending,
    notifs, sub, owner, used, audio>>

\* a request reaches an endpoint; multer has stored the upload of a file chat
\* under uploads/ before the handler runs
Request(e, t, f, q) ==
  /\ backend.step = "idle"
  /\ e = "voice-chat" => f = NoUpload /\ q = <<>>
  /\ e = "file-chat" => t = <<>>
  /\ backend' = [backend EXCEPT !.step = "handler", !.endpoint = e,
                                !.text = t, !.file = f, !.question = q,
                                !.onDisk = (f # NoUpload)]
  /\ UNCHANGED clientVars

\* POST /api/voice-chat up to the call of processTextWithAI
voiceChat ==
  /\ backend.step = "handler"
  /\ backend.endpoint = "voice-chat"
  /\ backend' =
       IF backend.text = <<>>
         THEN ErrorResponse(backend, 400, "No text provided")
         ELSE [backend EXCEPT !.step = "gemini", !.prompt = backend.text]
  /\ UNCHANGED clientVars

\* POST /api/file-chat up to its first await: readFileSync behaves as read
\* says and hands back the text x of a text file
fileChat(read, x) ==
  /\ backend.step = "handler"
  /\ backend.endpoint = "file-chat"
  /\ backend' =
       IF backend.file = NoUpload
         THEN ErrorResponse(backend, 400, "No file uploaded")
       ELSE IF backend.file = "application/pdf"
         THEN IF read = "throws"
                THEN ErrorResponse(backend, 500, "read failed")
                ELSE [backend EXCEPT !.step = "pdfParse"]
       ELSE IF backend.file = "text/plain"
         THEN IF read = "throws"
                THEN ErrorResponse(backend, 500, "read failed")
                ELSE [backend EXCEPT !.step = "gemini", !.onDisk = FALSE,
                                     !.prompt = finalPrompt(x, backend.question)]
       ELSE ErrorResponse([backend EXCEPT !.onDisk = FALSE], 400,
                          "Unsupported file type")
  /\ UNCHANGED clientVars

\* POST /api/file-chat after await pdfParse(dataBuffer): the text x, or the
\* error pdf-parse threw
pdfParsed(o, x) ==
  /\ backend.step = "pdfParse"
  /\ backend' =
       IF o = "throws"
         THEN ErrorResponse(backend, 500, "parse failed")
         ELSE [backend EXCEPT !.step = "gemini", !.onDisk = FALSE,
                              !.prompt = finalPrompt(x, backend.question)]
  /\ UNCHANGED clientVars

\* processTextWithAI after await generateContent; an error goes to the
\* handler's catch
generateContent(o) ==
  /\ backend.step = "gemini"
  /\ backend' =
       IF o = "throws" THEN ErrorResponse(backend, 500, "gemini failed")
       ELSE IF o = "noreply"
         THEN ErrorResponse(backend, 500, "No reply from Gemini")
       ELSE [backend EXCEPT !.step = "tts", !.replyText = ReplyText]
  /\ UNCHANGED clientVars

\* textToSpeech without the check of the audio's length
textToSpeech_NoLengthCheck(o, b) ==
  /\ backend.step = "tts"
  /\ backend' =
       IF o = "throws" THEN ErrorResponse(backend, 500, "fetch failed")
       ELSE IF o = "notok"
         THEN ErrorResponse(backend, 500, "ElevenLabs TTS failed")
       ELSE ResultResponse(backend, backend.replyText, toStringBase64(b))
  /\ UNCHANGED clientVars

\* processTextWithAI after the ElevenLabs fetch, and the handler's
\* res.json(result) or catch: b is the body of a 2xx response
textToSpeech(o, b) ==
  /\ backend.step = "tts"
  /\ backend' =
       IF o = "throws" THEN ErrorResponse(backend, 500, "fetch failed")
       ELSE IF o = "notok"
         THEN ErrorResponse(backend, 500, "ElevenLabs TTS failed")
       ELSE IF Len(b) = 0
         THEN ErrorResponse(backend, 500, "Empty audio from ElevenLabs")
       ELSE ResultResponse(backend, backend.replyText, toStringBase64(b))
  /\ UNCHANGED clientVars

\* handleSend: the client reads the response of the backend
handleSendResponse ==
  /\ backend.step = "done"
  /\ backend' = [backend EXCEPT
                   !.step = "received",
                   !.verdict = handleSendVerdict(backend.responses[1])]
  /\ UNCHANGED clientVars

\* ---- next-state relations ----
\* what the signed-in or anonymous user does to the list of chats
StoreEvents ==
  \/ handleNewChat
  \/ \E id \in 0..MaxId : SelectConversation(id)
  \/ \E id \in 0..MaxId : clearChatById(id)
  \/ \E id \in 0..MaxId : deleteChatById(id)

\* a typed exchange and its completion
TypedExchange ==
  \/ \E t \in Texts : TypeText(t)
  \/ EnterKey
  \/ \E r \in reqs, o \in Outcomes : Reply(r, o)

\* the session of one user and the remote store's side of it
SessionEvents ==
  \/ Login("A")
  \/ Logout
  \/ DeliverNotif
  \/ RemoteApply

\* the chat list with renames, one user's session, remote faults
NextStore ==
  \/ StoreEvents
  \/ SessionEvents
  \/ \E i \in 0..MaxId, t \in PromptInputs : handleRenameChat(i, t)
  \/ onSnapshotError
  \/ WriteFails

\* the chat list, one user's session, typed exchanges with or without a file
NextExchange ==
  \/ StoreEvents
  \/ TypedExchange
  \/ SessionEvents
  \/ \E f \in Files \cup {NoFile} : SetSelectedFile(f)

\* new / select / delete, one user's session, typed and spoken exchanges
NextSpeech ==
  \/ handleNewChat
  \/ \E id \in 0..MaxId : SelectConversation(id)
  \/ \E id \in 0..MaxId : deleteChatById(id)
  \/ TypedExchange
  \/ SessionEvents
  \/ startListening
  \/ \E t \in Transcripts : onresult(t)
  \/ onend

Spec == (Init \/ InitReturning) /\ [][NextStore]_vars

SpecExchange == Init /\ [][NextExchange]_vars

\* one audio buffer travels from the backend to the player
NextCodec ==
  \/ EncodeAudio
  \/ DecodeAudio

SpecSpeech == Init /\ [][NextSpeech]_vars

\* one signed-in client without faults: new chats, renames, typed exchanges,
\* and the remote store applying writes and handing over snapshots
NextSession ==
  \/ handleNewChat
  \/ \E id \in 0..MaxId : SelectConversation(id)
  \/ \E i \in 0..MaxId, t \in PromptInputs : handleRenameChat(i, t)
  \/ TypedExchange
  \/ DeliverNotif
  \/ RemoteApply

\* every issued write is applied, every raised snapshot is handed over and
\* every request is answered
SpecSession ==
  /\ InitSignedIn
  /\ [][NextSession]_vars
  /\ WF_vars(RemoteApply)
  /\ WF_vars(DeliverNotif)
  /\ WF_vars(\E r \in reqs, o \in Outcomes : Reply(r, o))

\* user A is signed in and another account signs in from the auth page
\* without a sign-out in between
NextSwitch ==
  \/ StoreEvents
  \/ \E u \in Users : Login(u)
  \/ DeliverNotif
  \/ RemoteApply

SpecSwitch == InitSignedIn /\ [][NextSwitch]_vars

\* one request on its way through the backend and back to the client
NextBackend ==
  \/ \E t \in Texts : Request("voice-chat", t, NoUpload, <<>>)
  \/ \E f \in MimeTypes \cup {NoUpload}, q \in Questions :
       Request("file-chat", <<>>, f, q)
  \/ voiceChat
  \/ \E read \in CallOutcomes, x \in Extracted : fileChat(read, x)
  \/ \E o \in CallOutcomes, x \in Extracted : pdfParsed(o, x)
  \/ \E o \in GeminiOutcomes : generateContent(o)
  \/ \E o \in TtsOutcomes, b \in AudioBuffers : textToSpeech(o, b)
  \/ handleSendResponse

SpecBackend == Init /\ [][NextBackend]_vars

SpecCodec == InitCodec /\ [][NextCodec]_vars


\* ---- properties ----
\* convs2 is convs with msgs appended to the conversation id, nothing else changed
AppendedTo(convs, convs2, id, msgs) ==
  /\ Len(convs2) = Len(convs)
  /\ \A i \in DOMAIN convs :
       convs2[i] = IF convs[i].id = id
                     THEN [convs[i] EXCEPT !.messages = convs[i].messages \o msgs]
                     ELSE convs[i]

\* a user's remote collection once every issued operation has been applied
RECURSIVE Settled(_, _, _)
Settled(docs, ops, u) ==
  IF ops = <<>> THEN docs
  ELSE Settled(IF Head(ops).uid = u THEN ApplyOp(docs, Head(ops)) ELSE docs,
               Tail(ops), u)

\* nothing is issued to the remote store in this step
NothingIssued ==
  IF pending = <<>> THEN pending' = <<>>
  ELSE pending' = pending \/ pending' = Tail(pending)

\* C1: the collection is never empty, and deleting the only conversation
\* leaves exactly one fresh default conversation (empty, never seen id).
C1_StoreNonEmpty ==
  /\ [](Len(conversations) >= 1)
  /\ [][\A id \in 0..MaxId :
          (deleteChatById(id) /\ Ids(conversations) = {id}) =>
            /\ Len(conversations') = 1
            /\ conversations'[1].title = DefaultTitle(1)
            /\ conversations'[1].messages = <<>>
            /\ owner[conversations'[1].id] = Unborn]_vars

\* an anonymous session that never signed in holds a default with a later id:
\* its only conversation was deleted
C1_Witness ==
  /\ used.logins = 0
  /\ Len(conversations) = 1
  /\ conversations[1].id > 1
  /\ conversations[1].title = DefaultTitle(1)

C3_NoOrphanAi ==
  [][\A r \in reqs : \A o \in Outcomes \ {"ok"} :
       Reply(r, o) => /\ conversations' = conversations
                      /\ pending' = pending]_vars

\* the one typed exchange has ended and its conversation ends with the
\* user message
C3_Witness ==
  /\ reqs = {}
  /\ ~loading
  /\ used.typed = 1
  /\ \E i \in DOMAIN conversations :
       /\ conversations[i].messages # <<>>
       /\ conversations[i].messages[Len(conversations[i].messages)].role = "user"

\* C4 (as claimed): at most one request is in flight, and the busy flag is set
\* whenever a request is outstanding.
C4_SingleFlight ==
  /\ Cardinality(reqs) <= 1
  /\ reqs # {} => loading

\* C5 (as claimed): no conversation created while nobody was signed in is
\* ever written to a user's remote collection.
C5_NoAnonymousMigration ==
  /\ \A i \in DOMAIN pending :
       pending[i].kind = "set" => owner[pending[i].id] # NoUser
  /\ \A u \in Users : \A d \in remote[u] : owner[d.id] # NoUser

\* C6: a notification carrying a non-empty set S replaces the collection by S,
\* which is in createdAt order; the active id is kept if S holds it and is
\* otherwise the id of the first element of S.
C6_ReplaceSemantics ==
  [][(DeliverNotif /\ Head(notifs).live /\ Head(notifs).docs # <<>>) =>
       LET S == Head(notifs).docs
       IN /\ conversations' = S
          /\ \A i, j \in DOMAIN S : i < j => S[i].createdAt <= S[j].createdAt
          /\ currentConversationId' =
               IF currentConversationId \in Ids(S) THEN currentConversationId
               ELSE S[1].id]_vars

\* the listener is live and everything raised has been handed over: the
\* collection is the user's remote collection of two or more conversations
C6_Witness ==
  /\ user # NoUser
  /\ sub = user
  /\ ~chatLoading
  /\ notifs = <<>>
  /\ pending = <<>>
  /\ Len(conversations) >= 2
  /\ conversations = OrderByCreatedAt(remote[user])

\* C7 (as claimed): a notification carrying the empty set installs exactly one
\* default conversation, active, issues exactly one write of it, and that
\* default is then the user's only conversation once the issued operations
\* have been applied.
C7_SelfHealOneDefault ==
  [][(DeliverNotif /\ Head(notifs).live /\ Head(notifs).docs = <<>>) =>
       /\ Len(conversations') = 1
       /\ conversations'[1].title = DefaultTitle(1)
       /\ conversations'[1].messages = <<>>
       /\ currentConversationId' = conversations'[1].id
       /\ pending' = Append(pending, SetOp(sub, conversations'[1]))
       /\ Settled(remote[sub], pending', sub) = {conversations'[1]}]_vars

\* C8: every step from a signed-in user to no user leaves exactly one
\* conversation, empty, with an id never handed out before, and active.
C8_LogoutResets ==
  [][(user # NoUser /\ user' = NoUser) =>
       /\ Len(conversations') = 1
       /\ conversations'[1].messages = <<>>
       /\ owner[conversations'[1].id] = Unborn
       /\ conversations'[1].id \notin Ids(conversations)
       /\ \A u \in Users : conversations'[1].id \notin {d.id : d \in remote[u]}
       /\ currentConversationId' = conversations'[1].id]_vars

\* signed out after a session in which the remote collection was loaded
C8_Witness ==
  /\ user = NoUser
  /\ used.logins >= 1
  /\ \E u \in Users : remote[u] # {}

\* C9: while nobody is signed in no write and no delete is issued, also not by
\* a reply or a speech result whose closure captured a signed-in user.
C9_AnonymousNeverPushes ==
  [][user = NoUser => NothingIssued]_vars

\* signed out; the recognition started earlier has delivered its result and an
\* exchange whose closure holds a signed-in user is still in flight
C9_Witness ==
  /\ user = NoUser
  /\ listening
  /\ ~rec.live
  /\ \E r \in reqs : r.user # NoUser /\ r.conv \notin Ids(conversations)

\* C10: once signed out, no snapshot is live, and handing over a snapshot
\* changes neither the collection nor the active id.
C10_NoNotificationAfterLogout ==
  /\ [](user = NoUser => \A i \in DOMAIN notifs : ~notifs[i].live)
  /\ [][(user = NoUser /\ DeliverNotif) =>
          /\ conversations' = conversations
          /\ currentConversationId' = currentConversationId]_vars

\* signed out while a raised snapshot had not been handed over
C10_Witness ==
  /\ user = NoUser
  /\ used.logins >= 1
  /\ notifs # <<>>

\* the two validation returns of handleSend for a text, a file and a conversation
Refused(text, file, cur) ==
  (Trim(text) = <<>> /\ file = NoFile) \/ cur = NoConv

\* C11: a send with blank text and no file, or without an active conversation,
\* changes nothing: no message, no request, no write, the busy flag, the
\* input text and the selected file stay (a speech result has put its
\* transcript into the input box before it calls the send).
C11_SendValidation ==
  [][/\ (EnterKey /\ Refused(inputText, selectedFile, currentConversation)) =>
          UNCHANGED <<conversations, reqs, sent, pending, loading, inputText,
                      selectedFile>>
     /\ \A t \in Transcripts :
          (onresult(t) /\ Refused(t, rec.file, rec.conv)) =>
            /\ UNCHANGED <<conversations, reqs, sent, pending, loading,
                           selectedFile>>
            /\ inputText' = t]_vars

\* a recognition has delivered a blank transcript and no exchange was started
C11_Witness ==
  /\ used.spoken = 1
  /\ rec = NoRec
  /\ listening
  /\ sent = 0
  /\ reqs = {}
  /\ inputText = <<" ">>

\* a prompt result that is cancelled, empty or made of blanks only
BlankTitle(t) == t = Cancelled \/ \A k \in DOMAIN t : t[k] = " "

\* C12: a rename with a cancelled, empty or all-blank title leaves the store
\* and the issued writes unchanged; any other rename changes the title of the
\* named conversation and nothing else in the store.
C12_RenameRejectsBlank ==
  [][\A i \in 0..MaxId : \A t \in PromptInputs :
       handleRenameChat(i, t) =>
         IF BlankTitle(t)
           THEN UNCHANGED <<conversations, currentConversationId, pending>>
           ELSE /\ DOMAIN conversations' = DOMAIN conversations
                /\ conversations'[i].title = Trim(t)
                /\ conversations'[i].title # <<>>
                /\ \A j \in DOMAIN conversations :
                     /\ conversations'[j].id = conversations[j].id
                     /\ conversations'[j].createdAt = conversations[j].createdAt
                     /\ conversations'[j].messages = conversations[j].messages
                     /\ j # i => conversations'[j] = conversations[j]
                /\ currentConversationId' = currentConversationId]_vars

\* a conversation carries the title typed into the prompt
C12_Witness ==
  /\ used.renames = 1
  /\ \E i \in DOMAIN conversations : conversations[i].title = <<"R">>

\* the conversations of a collection, as a set
Held(convs) == {convs[i] : i \in DOMAIN convs}

\* the operations a step adds to the issued ones
Issued == {pending'[k] : k \in (Len(pending) + 1)..Len(pending')}

\* C13 (as claimed): every step other than a snapshot delivery that changes
\* the collection while a user is signed in issues, for that user, a write of
\* every conversation it created or changed, carrying the conversation as it
\* is after the step, and a delete of every id it removed.
C13_EveryMutationPushes ==
  [][(user # NoUser /\ user' = user /\ conversations' # conversations
        /\ ~DeliverNotif) =>
       /\ \A c \in Held(conversations') \ Held(conversations) :
            SetOp(user, c) \in Issued
       /\ \A id \in Ids(conversations) \ Ids(conversations') :
            DelOp(user, id) \in Issued]_vars

\* C14: deleting the only conversation leaves one conversation titled
\* "New Chat 1" without messages, active; with a user signed in the step
\* issues a delete of the removed id followed by a write of the new default,
\* and with nobody signed in it issues nothing.
C14_DeleteOnlyInsertsDefault ==
  [][\A id \in 0..MaxId :
       (deleteChatById(id) /\ Ids(conversations) = {id}) =>
         /\ Len(conversations') = 1
         /\ conversations'[1].id # id
         /\ conversations'[1].title = <<"N", "1">>
         /\ conversations'[1].messages = <<>>
         /\ currentConversationId' = conversations'[1].id
         /\ pending' = pending \o
              (IF user = NoUser THEN <<>>
               ELSE <<DelOp(user, id), SetOp(user, conversations'[1])>>)]_vars

\* a signed-in user has deleted the only conversation: the delete and the
\* write of the default that replaced it are issued
C14_Witness ==
  /\ user # NoUser
  /\ Len(conversations) = 1
  /\ Len(pending) >= 2
  /\ pending[Len(pending) - 1].kind = "del"
  /\ pending[Len(pending)] = SetOp(user, conversations[1])

\* the step changes at most the message sequence of the conversation id
MessageFrame(id) ==
  /\ DOMAIN conversations' = DOMAIN conversations
  /\ \A j \in DOMAIN conversations :
       /\ conversations'[j].id = conversations[j].id
       /\ conversations'[j].title = conversations[j].title
       /\ conversations'[j].createdAt = conversations[j].createdAt
       /\ conversations[j].id # id =>
            conversations'[j].messages = conversations[j].messages

\* the step neither changes the collection nor issues an operation
NoOpOnStore == conversations' = conversations /\ pending' = pending

\* C15: a clear, the append of a send and the append of a reply change only
\* the message sequence of the conversation they name; when the collection
\* does not hold that conversation the collection is unchanged and nothing is
\* issued.
C15_MessageMutationFrame ==
  [][/\ \A id \in 0..MaxId : clearChatById(id) => MessageFrame(id)
     /\ EnterKey => MessageFrame(currentConversation)
     /\ \A t \in Transcripts :
          onresult(t) => /\ MessageFrame(rec.conv)
                         /\ rec.conv \notin Ids(conversations) => NoOpOnStore
     /\ \A r \in reqs : \A o \in Outcomes :
          Reply(r, o) => /\ MessageFrame(r.conv)
                         /\ r.conv \notin Ids(conversations) => NoOpOnStore]_vars

\* an exchange has completed in one conversation while another conversation
\* of the collection still has no message
C15_Witness ==
  /\ reqs = {}
  /\ sent = 1
  /\ \E i, j \in DOMAIN conversations :
       /\ i # j
       /\ conversations[i].messages = <<UserMsg(<<"h">>), AiMsg>>
       /\ conversations[j].messages = <<>>

\* C16: the ids of the conversations the collection holds are pairwise
\* distinct (the id generator hands out a fresh id on each call).
C16_IdsDistinct ==
  \A i, j \in DOMAIN conversations :
     i # j => conversations[i].id # conversations[j].id

\* the collection holds a conversation received from the user's feed together
\* with one created in this session that the remote collection does not hold
C16_Witness ==
  /\ user = "A"
  /\ OldConv.id \in Ids(conversations)
  /\ \E i \in DOMAIN conversations :
       /\ conversations[i].id # OldConv.id
       /\ owner[conversations[i].id] = "A"
       /\ conversations[i].id \notin {d.id : d \in remote["A"]}

\* C17: a listener error turns chatLoading off and leaves the collection and
\* the active id as they were; while the same user stays signed in the dead
\* listener is not replaced and none of its snapshots is handed over.
C17_SubscriptionFailure ==
  /\ [][onSnapshotError =>
          /\ chatLoading' = FALSE
          /\ conversations' = conversations
          /\ currentConversationId' = currentConversationId
          /\ pending' = pending]_vars
  /\ [][(user # NoUser /\ sub = NoUser /\ user' = user) =>
          /\ sub' = NoUser
          /\ DeliverNotif =>
               UNCHANGED <<conversations, currentConversationId, chatLoading>>]_vars

\* the listener of the signed-in user has failed before its first snapshot:
\* the indicator is off and the collection is still the one of the sign-in
C17_Witness ==
  /\ user # NoUser
  /\ sub = NoUser
  /\ used.faults >= 1
  /\ ~chatLoading
  /\ \E i \in DOMAIN conversations : owner[conversations[i].id] = NoUser

\* C18: for every audio buffer, encoding it as the backend does and decoding
\* the result with base64ToAudioUrl gives a resource holding the same bytes,
\* in the same order and of the same length.
C18_AudioRoundTrip ==
  audio.step = "decoded" =>
    /\ Len(audio.blob) = Len(audio.buffer)
    /\ \A i \in 1..Len(audio.buffer) : audio.blob[i] = audio.buffer[i]

\* a buffer whose length is not a multiple of three (padding is needed) and
\* that holds bytes above 127 has made the round trip
C18_Witness ==
  /\ audio.step = "decoded"
  /\ Len(audio.buffer) = 4
  /\ audio.buffer[1] = 255
  /\ audio.buffer[4] = 128
  /\ audio.base64[7] = Pad

\* nothing is on its way: no issued write, no raised snapshot, no request
Quiescent == pending = <<>> /\ notifs = <<>> /\ reqs = {}

\* the collection is the signed-in user's remote collection
Agree == conversations = OrderByCreatedAt(remote[user])

\* the user message of the exchange started in this session is in the
\* collection and in the remote collection (nothing is cleared or deleted in
\* SpecSession)
NoneLost ==
  sent = 1 =>
    \E t \in Texts :
      /\ \E i \in DOMAIN conversations :
           \E k \in DOMAIN conversations[i].messages :
             conversations[i].messages[k] = UserMsg(t)
      /\ \E d \in remote[user] :
           \E k \in DOMAIN d.messages : d.messages[k] = UserMsg(t)

\* C19 (as claimed): in a signed-in session without write failures, whenever
\* something is on its way the session reaches a state where nothing is, the
\* collection equals the remote collection and the message appended in the
\* session is in both.
C19_StaleOnlyTransient ==
  (~Quiescent) ~> (Quiescent /\ Agree /\ NoneLost)

\* C20 (as claimed): every write issued for a user, and every document in a
\* user's remote collection, is a conversation created while that user was
\* signed in; after a change from user A straight to user B no conversation
\* of A is written under B.
C20_NoCrossUserWrite ==
  /\ \A i \in DOMAIN pending :
       pending[i].kind = "set" => owner[pending[i].id] = pending[i].uid
  /\ \A u \in Users : \A d \in remote[u] : owner[d.id] = u

\* C21 (as claimed): chatLoading is on only while the listener of the
\* signed-in user is live and a snapshot raised for it waits to be handed
\* over; it is off whenever nobody is signed in.
C21_LoadingOnlyWhileAwaiting ==
  /\ user = NoUser => ~chatLoading
  /\ chatLoading =>
       /\ sub = user
       /\ \E i \in DOMAIN notifs : notifs[i].live

\* C22: the active conversation id is the id of a conversation the
\* collection holds.
C22_ActiveIdInStore ==
  currentConversationId \in Ids(conversations)

\* a snapshot has replaced the collection of the anonymous session: the
\* conversation that was active is gone and a received one is active
C22_Witness ==
  /\ user = "A"
  /\ ~chatLoading
  /\ 1 \notin Ids(conversations)
  /\ currentConversationId = OldConv.id

\* C23: a successful reply changes no conversation other than the one its
\* exchange's user message was appended to, whichever conversation is active
\* when it arrives; if the collection still holds that conversation the ai
\* message is its last message afterwards.
C23_ReplyGoesToItsConversation ==
  [][\A r \in reqs :
       Reply(r, "ok") =>
         /\ \A j \in DOMAIN conversations :
              conversations[j].id # r.conv =>
                /\ j \in DOMAIN conversations'
                /\ conversations'[j] = conversations[j]
         /\ r.conv \in Ids(conversations) =>
              LET msgs == MessagesOf(conversations', r.conv)
              IN /\ msgs = Append(MessagesOf(conversations, r.conv), AiMsg)
                 /\ msgs[Len(msgs)] = AiMsg]_vars

\* the exchange has completed in a conversation that is not the active one
C23_Witness ==
  /\ reqs = {}
  /\ sent = 1
  /\ \E i \in DOMAIN conversations :
       /\ conversations[i].id # currentConversationId
       /\ conversations[i].messages = <<UserMsg(<<"h">>), AiMsg>>
  /\ MessagesOf(conversations, currentConversationId) = <<>>

\* C24: once /api/file-chat has sent its response to a request that carried
\* a file, the uploaded temporary file is no longer on disk, whatever path
\* the handler took (success, unsupported type, failed extraction, failed
\* AI call).
C24_UploadDeletedAfterResponse ==
  (/\ backend.endpoint = "file-chat"
   /\ backend.file # NoUpload
   /\ Len(backend.responses) > 0)
    => ~backend.onDisk

\* C25: a request to /api/voice-chat or /api/file-chat is answered exactly
\* once; the answer is either a success with a non-empty replyText and a
\* non-empty audioBase64, or a non-success status with an error string; the
\* client never reads a success as a response with a missing field.
C25_OneWellFormedResponse ==
  /\ Len(backend.responses) <= 1
  /\ backend.step \in {"done", "received"} <=> Len(backend.responses) = 1
  /\ \A i \in DOMAIN backend.responses :
       LET resp == backend.responses[i] IN
         \/ /\ resp.status \in 200..299
            /\ resp.replyText # <<>>
            /\ resp.audioBase64 # <<>>
            /\ resp.error = Absent
            /\ handleSendVerdict(resp) = "ok"
         \/ /\ ~(resp.status \in 200..299)
            /\ resp.error \notin {Absent, ""}
            /\ handleSendVerdict(resp) = "http"
  /\ backend.verdict # "missing"

\* a file chat was answered with a success and the client has read it
C25_Witness ==
  /\ backend.step = "received"
  /\ backend.endpoint = "file-chat"
  /\ backend.verdict = "ok"
  /\ backend.responses[1].status = 200

====
